---- MODULE Spec2Model ----
(***************************************************************************)
(* Model of the digicloud-issuer certificate request controller            *)
(* (controllers.CertificateRequestReconciler) and of the cluster objects   *)
(* it reads: the referenced issuer and the issuer's credential secret.     *)
(*                                                                         *)
(* Time is counted in seconds.  One Reconcile pass is one atomic step:     *)
(* the controller runtime never runs two passes of one request at once.    *)
(***************************************************************************)
EXTENDS Integers, Sequences, FiniteSets, TLC

(* ------------------------------ bounds --------------------------------- *)
\* the clock stops at MaxTime
MaxTime == 50
\* the clock advances in steps of TickStep seconds
TickStep == 10
\* the longest name handed to the zone resolver, in characters
MaxLen == 6
\* the API hands out record ids up to MaxId
MaxId == 2

(* ------------------------- program constants --------------------------- *)
\* time.Minute: requeue delay after a failed issuer lookup
IssuerBackoff == 60
\* 30 * time.Second: requeue delay of the first cycle and of a waiting cycle
RequeueWait == 30
\* 30*time.Second: the wait shouldCompleteValidation compares elapsed with
ValidationDelay == 30
\* +kubebuilder:default="5m": the issuer's propagation timeout
PropagationTimeout == 300
\* +kubebuilder:default="10s": the issuer's polling interval
PollingInterval == 10

DigicloudGroup == "digicloud.issuer.vamirreza.github.io"
ConditionReady == "Ready"
ReasonPending == "Pending"
ReasonFailed == "Failed"
ReasonIssued == "Issued"
MsgIssuerFailed == "Failed to get issuer"
MsgCSRFailed == "Failed to parse CSR"
MsgInProgress == "DNS validation in progress"
MsgIssued == "Certificate issued successfully"
MsgCertFailed == "Failed to generate certificate"

\* the one certificate request of the model
Requests == {"cr1"}
\* a nil byte slice, and the PEM bytes generateMockCertificate returns
NilBytes == <<>>
MockCert == <<"MOCK-CERTIFICATE-PEM">>

\* issuer references a request can carry
IssuerRefs ==
  {[group |-> DigicloudGroup, kind |-> "DigicloudIssuer"],
   [group |-> DigicloudGroup, kind |-> "DigicloudClusterIssuer"],
   [group |-> DigicloudGroup, kind |-> "Issuer"],
   [group |-> "cert-manager.io", kind |-> "DigicloudIssuer"]}

\* spec.request payloads: PEM framing present or not, DER a CSR or not
CSRs ==
  {[pem |-> FALSE, der |-> "garbage"], [pem |-> TRUE, der |-> "garbage"],
   [pem |-> TRUE, der |-> "csr"]}

\* a condition cert-manager's approver puts on a request
ApprovedCondition ==
  [type |-> "Approved", status |-> "True", reason |-> "cert-manager.io",
   message |-> "approved", ltt |-> 0]

VARIABLES now, crs, issuers, secret, pendingSince, last, started,
          resolver, records, nextId, inflight, ret, created,
          iobj, isecrets, ilast, built

\* the state of the request controller and of the DNS provider
reconVars == <<now, crs, issuers, secret, pendingSince, last, started>>

dnsVars == <<resolver, records, nextId, inflight, ret, created>>

\* the state of the issuer controllers and of the signer
issuerVars == <<iobj, isecrets, ilast, built>>

vars == <<now, crs, issuers, secret, pendingSince, last, started,
          resolver, records, nextId, inflight, ret, created,
          iobj, isecrets, ilast, built>>

(* --------------------- CertificateRequestReconciler -------------------- *)

\* the group of the reference not compared
isDigicloudIssuer_AnyGroup(ref) ==
  ref.kind \in {"DigicloudIssuer", "DigicloudClusterIssuer"}

isDigicloudIssuer(ref) ==
  /\ ref.group = DigicloudGroup
  /\ ref.kind \in {"DigicloudIssuer", "DigicloudClusterIssuer"}

\* the completed-request check left out
CertificateSet_Unchecked(c) == FALSE

\* cr.Status.Certificate != nil
CertificateSet(c) == c.certificate # NilBytes

\* the failed check compares the status with True instead of False
hasFailedCondition_WrongStatus(c) ==
  \E i \in DOMAIN c.conditions :
    /\ c.conditions[i].type = ConditionReady
    /\ c.conditions[i].status = "True"
    /\ c.conditions[i].reason = ReasonFailed

hasFailedCondition(c) ==
  \E i \in DOMAIN c.conditions :
    /\ c.conditions[i].type = ConditionReady
    /\ c.conditions[i].status = "False"
    /\ c.conditions[i].reason = ReasonFailed

\* the error of getIssuer: "nil" when the referenced object is found
getIssuer(ref, iss) ==
  IF ref.kind = "DigicloudIssuer"
  THEN (IF "DigicloudIssuer" \in iss THEN "nil" ELSE "not found")
  ELSE IF ref.kind = "DigicloudClusterIssuer"
  THEN (IF "DigicloudClusterIssuer" \in iss THEN "nil" ELSE "not found")
  ELSE "unknown issuer kind"

\* the error of parseCSR: pem.Decode, then x509.ParseCertificateRequest
parseCSR(data) ==
  IF ~data.pem THEN "failed to decode PEM block"
  ELSE IF data.der # "csr" THEN "failed to parse certificate request"
  ELSE "nil"

\* index of the first Ready condition, 0 when there is none
FirstReady(conds) ==
  IF \E i \in DOMAIN conds : conds[i].type = ConditionReady
  THEN CHOOSE i \in DOMAIN conds :
         /\ conds[i].type = ConditionReady
         /\ \A j \in DOMAIN conds : conds[j].type = ConditionReady => i <= j
  ELSE 0

\* setStatus appends a condition without looking for an existing one
setStatus_AlwaysAppends(c, status, reason, message, t) ==
  [c EXCEPT !.conditions =
     Append(@, [type |-> ConditionReady, status |-> status, reason |-> reason,
                message |-> message, ltt |-> t])]

\* setStatus, up to the write: the object handed to Status().Update
setStatus(c, status, reason, message, t) ==
  LET i == FirstReady(c.conditions)
      cond == [type |-> ConditionReady, status |-> status, reason |-> reason,
               message |-> message, ltt |-> t]
  IN IF i = 0
     THEN [c EXCEPT !.conditions = Append(@, cond)]
     ELSE [c EXCEPT !.conditions[i] = cond]

isAlreadyIssued(c) ==
  \/ \E i \in DOMAIN c.conditions :
       /\ c.conditions[i].type = ConditionReady
       /\ c.conditions[i].status = "True"
       /\ c.conditions[i].reason = ReasonIssued
  \/ Len(c.certificate) > 0

\* the processing check looks for a status of True
hasProcessingCondition_WrongStatus(c) ==
  \E i \in DOMAIN c.conditions :
    /\ c.conditions[i].type = ConditionReady
    /\ c.conditions[i].status = "True"
    /\ c.conditions[i].reason = ReasonPending

hasProcessingCondition(c) ==
  \E i \in DOMAIN c.conditions :
    /\ c.conditions[i].type = ConditionReady
    /\ c.conditions[i].reason = ReasonPending

\* index of the first Ready condition with reason Pending, 0 when none
FirstPending(conds) ==
  IF \E i \in DOMAIN conds :
       conds[i].type = ConditionReady /\ conds[i].reason = ReasonPending
  THEN CHOOSE i \in DOMAIN conds :
         /\ conds[i].type = ConditionReady
         /\ conds[i].reason = ReasonPending
         /\ \A j \in DOMAIN conds :
              (conds[j].type = ConditionReady /\ conds[j].reason = ReasonPending)
                => i <= j
  ELSE 0

shouldCompleteValidation(c, t) ==
  LET i == FirstPending(c.conditions)
  IN IF i = 0 THEN FALSE
     ELSE t - c.conditions[i].ltt > ValidationDelay

\* the generated certificate is empty
generateMockCertificate_Empty(csr) == [cert |-> NilBytes, err |-> "nil"]

\* generateMockCertificate: always the fixed PEM, never an error
generateMockCertificate(csr) == [cert |-> MockCert, err |-> "nil"]

\* the result of a pass that returns before any write
Skip(c, branch, calls) ==
  [branch |-> branch, object |-> c, wrote |-> FALSE, requeueAfter |-> 0,
   err |-> "nil", events |-> {}, calls |-> calls]

\* the result of a pass that ends with one setStatus
Done(branch, obj, requeue, events, calls) ==
  [branch |-> branch, object |-> obj, wrote |-> TRUE, requeueAfter |-> requeue,
   err |-> "nil", events |-> events, calls |-> calls]

\* the issuer lookup failure marks the request Failed and stops
IssuerFailure_Fails(c, t) ==
  Done("issuer-failed",
       setStatus(c, "False", ReasonFailed, MsgIssuerFailed, t),
       0, {}, {"GetIssuer"})

\* lines 80-86: the issuer lookup failed
IssuerFailure(c, t) ==
  Done("issuer-failed",
       setStatus(c, "False", ReasonPending, MsgIssuerFailed, t),
       IssuerBackoff, {}, {"GetIssuer"})

\* the CSR failure is reported as Pending and retried
CSRFailure_Retries(c, t) ==
  Done("csr-failed",
       setStatus(c, "False", ReasonPending, MsgCSRFailed, t),
       RequeueWait, {}, {"GetIssuer"})

\* lines 88-94: the CSR does not parse
CSRFailure(c, t) ==
  Done("csr-failed",
       setStatus(c, "False", ReasonFailed, MsgCSRFailed, t),
       0, {}, {"GetIssuer"})

\* lines 111-117: the first cycle
FirstCycle(c, t) ==
  Done("first-cycle",
       setStatus(c, "False", ReasonPending, MsgInProgress, t),
       RequeueWait, {"Processing"}, {"GetIssuer"})

\* the issuing branch forgets to put the certificate into the status
CompleteValidation_NoCertificate(c, t) ==
  Done("issued",
       setStatus(c, "True", ReasonIssued, MsgIssued, t),
       0, {"Issued"}, {"GetIssuer"})

\* lines 121-138: validation is taken to be complete
CompleteValidation(c, t) ==
  LET gen == generateMockCertificate(c.request)
  IN IF gen.err # "nil"
     THEN Done("cert-failed",
               setStatus(c, "False", ReasonFailed, MsgCertFailed, t),
               0, {}, {"GetIssuer"})
     ELSE Done("issued",
               setStatus([c EXCEPT !.certificate = gen.cert],
                         "True", ReasonIssued, MsgIssued, t),
               0, {"Issued"}, {"GetIssuer"})

\* lines 140-144: still waiting
StillWaiting(c, t) ==
  Done("waiting",
       setStatus(c, "False", ReasonPending, MsgInProgress, t),
       RequeueWait, {}, {"GetIssuer"})

\* Reconcile up to the status write, on the object c read at time t while
\* the issuers in iss exist
ReconcileResult(c, iss, t) ==
  IF ~c.exists THEN Skip(c, "not-found", {})
  ELSE IF ~isDigicloudIssuer(c.issuerRef) THEN Skip(c, "ignored", {})
  ELSE IF CertificateSet(c) THEN Skip(c, "complete", {})
  ELSE IF hasFailedCondition(c) THEN Skip(c, "has-failed", {})
  ELSE IF getIssuer(c.issuerRef, iss) # "nil" THEN IssuerFailure(c, t)
  ELSE IF parseCSR(c.request) # "nil" THEN CSRFailure(c, t)
  ELSE IF isAlreadyIssued(c) THEN Skip(c, "already-issued", {"GetIssuer"})
  ELSE IF ~hasProcessingCondition(c) THEN FirstCycle(c, t)
  ELSE IF shouldCompleteValidation(c, t) THEN CompleteValidation(c, t)
  ELSE StillWaiting(c, t)

(* --------------------------- DigicloudProvider -------------------------- *)
(* A string is the sequence of its characters; "" is <<>>.  The challenge  *)
(* prefix "_acme-challenge" is written as one character.                   *)

EmptyString == <<>>

Dot == <<".">>

\* strings.HasSuffix
HasSuffix(s, suffix) ==
  /\ Len(s) >= Len(suffix)
  /\ SubSeq(s, Len(s) - Len(suffix) + 1, Len(s)) = suffix

\* strings.TrimSuffix
TrimSuffix(s, suffix) ==
  IF HasSuffix(s, suffix) THEN SubSeq(s, 1, Len(s) - Len(suffix)) ELSE s

\* strings.Split(s, "."): the pieces between the dots, empty pieces included
RECURSIVE Split(_)
Split(s) ==
  IF \A i \in DOMAIN s : s[i] # "." THEN <<s>>
  ELSE LET i == CHOOSE k \in DOMAIN s :
                  s[k] = "." /\ \A j \in 1..(k - 1) : s[j] # "."
       IN <<SubSeq(s, 1, i - 1)>> \o Split(SubSeq(s, i + 1, Len(s)))

\* strings.Join(parts, ".")
RECURSIVE Join(_)
Join(parts) ==
  IF Len(parts) = 0 THEN EmptyString
  ELSE IF Len(parts) = 1 THEN parts[1]
  ELSE parts[1] \o Dot \o Join(Tail(parts))

\* the zone is taken from the front of the name
extractDomainName_FirstTwo(fqdn) ==
  LET parts == Split(TrimSuffix(fqdn, Dot))
  IN IF Len(parts) >= 2 THEN Join(SubSeq(parts, 1, 2)) ELSE EmptyString

\* lines 155-168
extractDomainName(fqdn) ==
  LET parts == Split(TrimSuffix(fqdn, Dot))
  IN IF Len(parts) >= 2
     THEN Join(SubSeq(parts, Len(parts) - 1, Len(parts)))
     ELSE EmptyString

\* the apex is not given its own name
extractRecordName_NoApex(fqdn, domain) ==
  LET f == TrimSuffix(fqdn, Dot)
      d == TrimSuffix(domain, Dot)
  IN IF HasSuffix(f, Dot \o d) THEN TrimSuffix(f, Dot \o d) ELSE f

\* lines 170-185
extractRecordName(fqdn, domain) ==
  LET f == TrimSuffix(fqdn, Dot)
      d == TrimSuffix(domain, Dot)
  IN IF f = d THEN <<"@">>
     ELSE IF HasSuffix(f, Dot \o d) THEN TrimSuffix(f, Dot \o d)
     ELSE f

\* lines 187-194: the domain name is used as the domain id
getDomainID(domainName) == [id |-> domainName, err |-> "nil"]

\* dns01.GetChallengeInfo: the challenge name of the domain and the digest
\* of the key authorization
GetChallengeInfo(domain, keyAuth) ==
  [EffectiveFQDN |-> <<"_acme-challenge", ".">> \o domain \o Dot,
   Value |-> <<"sha256", keyAuth>>]

\* NewDigicloudProvider: the default TTL
DefaultTTL == 300

\* the empty record id
NoID == 0

\* an answer of the API: a transport failure, or a status with a body that
\* decodes as a record list or does not
Answer(status) == [failed |-> FALSE, status |-> status, decodes |-> TRUE]

TransportFailure == [failed |-> TRUE, status |-> 0, decodes |-> FALSE]

Undecodable == [failed |-> FALSE, status |-> 200, decodes |-> FALSE]

\* no request was sent
NoAnswer == [failed |-> FALSE, status |-> 0, decodes |-> FALSE]

\* any 2xx status counts as success
createTXTRecord_Any2xx(resp) ==
  IF resp.failed THEN "HTTP request failed"
  ELSE IF resp.status < 200 \/ resp.status > 299 THEN "API request failed"
  ELSE "nil"

\* lines 196-226: the error createTXTRecord returns for the POST's answer
createTXTRecord(resp) ==
  IF resp.failed THEN "HTTP request failed"
  ELSE IF resp.status # 202 THEN "API request failed"
  ELSE "nil"

\* the first listed record is taken, whatever the positions in hits
FirstMatch_FirstListed(listing, hits) ==
  IF Len(listing) = 0 THEN NoID ELSE listing[1].id

\* the id of the first record of the listing among the positions in hits,
\* or NoID
FirstMatch(listing, hits) ==
  IF hits = {} THEN NoID
  ELSE listing[CHOOSE i \in hits : \A j \in hits : i <= j].id

\* the content of the records is not compared
findTXTRecord_IgnoresContent(resp, listing, recordName, content) ==
  LET hits == {i \in DOMAIN listing :
                 listing[i].type = "TXT" /\ listing[i].name = recordName}
  IN IF resp.failed THEN [id |-> NoID, err |-> "HTTP request failed"]
     ELSE IF resp.status # 200 THEN [id |-> NoID, err |-> "API request failed"]
     ELSE IF ~resp.decodes THEN [id |-> NoID, err |-> "failed to decode response"]
     ELSE [id |-> FirstMatch(listing, hits), err |-> "nil"]

\* lines 228-264: the id and error findTXTRecord returns for the GET's
\* answer and the record list it carries
findTXTRecord(resp, listing, recordName, content) ==
  LET hits == {i \in DOMAIN listing :
                 /\ listing[i].type = "TXT"
                 /\ listing[i].name = recordName
                 /\ listing[i].content = content}
  IN IF resp.failed THEN [id |-> NoID, err |-> "HTTP request failed"]
     ELSE IF resp.status # 200 THEN [id |-> NoID, err |-> "API request failed"]
     ELSE IF ~resp.decodes THEN [id |-> NoID, err |-> "failed to decode response"]
     ELSE [id |-> FirstMatch(listing, hits), err |-> "nil"]

\* any 2xx status counts as a deletion
deleteTXTRecord_Any2xx(resp) ==
  IF resp.failed THEN "HTTP request failed"
  ELSE IF resp.status < 200 \/ resp.status > 299 THEN "API request failed"
  ELSE "nil"

\* lines 266-290: the error deleteTXTRecord returns for the DELETE's answer
deleteTXTRecord(resp) ==
  IF resp.failed THEN "HTTP request failed"
  ELSE IF resp.status # 204 THEN "API request failed"
  ELSE "nil"

(* ------------------------------- state --------------------------------- *)

\* the provider's workers: each runs one CleanUp at a time
Workers == {"w1", "w2"}

NoResolve ==
  [fqdn |-> EmptyString, done |-> FALSE, zone |-> EmptyString,
   label |-> EmptyString]

NoCleanup ==
  [busy |-> FALSE, domain |-> EmptyString, keyAuth |-> "none", id |-> NoID]

NoReturn ==
  [seq |-> 0, op |-> "none", domain |-> EmptyString, keyAuth |-> "none",
   sent |-> <<>>, resp |-> NoAnswer, id |-> NoID, err |-> "nil"]

NoCreate ==
  [id |-> NoID, zone |-> EmptyString, name |-> EmptyString,
   content |-> EmptyString]

\* no provider call has been made and the zones are empty
DNSIdle ==
  /\ resolver = NoResolve
  /\ records = <<>>
  /\ nextId = 1
  /\ inflight = [w \in Workers |-> NoCleanup]
  /\ ret = NoReturn
  /\ created = NoCreate

\* the two issuer kinds and the namespaces their secrets are looked up in
IssuerKinds == {"DigicloudIssuer", "DigicloudClusterIssuer"}

IssuerNamespace == "team-a"

ClusterSecretNamespace == "digicloud-issuer-system"

SecretNamespaces == {IssuerNamespace, ClusterSecretNamespace}

NoIssuer ==
  [exists |-> FALSE, namespace |-> "", secretRef |-> [name |-> "", key |-> ""],
   conditions |-> <<>>]

NoSecret == [exists |-> FALSE, keys |-> {}]

\* a key of a secret's data: absent, or present with a value
AbsentEntry == [has |-> FALSE, val |-> ""]

Entry(v) == [has |-> TRUE, val |-> v]

NoData == [token |-> AbsentEntry, namespace |-> AbsentEntry]

\* a nil *int
NilTTL == [set |-> FALSE, val |-> 0]

NoIssuerPass ==
  [seq |-> 0, kind |-> "none", wrote |-> FALSE, persisted |-> FALSE,
   requeueAfter |-> 0, err |-> "nil"]

NoBuild ==
  [done |-> FALSE, path |-> "none", exists |-> FALSE, secretKey |-> "",
   data |-> NoData, ttl |-> NilTTL, token |-> "", namespace |-> "",
   providerTTL |-> 0, err |-> "nil", bundle |-> NilBytes,
   signErr |-> "none"]

\* no issuer and no secret exists, and no provider has been built
IssuerIdle ==
  /\ iobj = [k \in IssuerKinds |-> NoIssuer]
  /\ isecrets = [n \in SecretNamespaces |-> NoSecret]
  /\ ilast = NoIssuerPass
  /\ built = NoBuild

NoPass ==
  [seq |-> 0, req |-> "none", branch |-> "none", wrote |-> FALSE,
   persisted |-> FALSE, requeueAfter |-> 0, err |-> "nil", events |-> {},
   calls |-> {}]

Init ==
  /\ now = 0
  /\ crs \in [Requests ->
                [exists : {TRUE}, issuerRef : IssuerRefs, request : CSRs,
                 conditions : {<<>>, <<ApprovedCondition>>},
                 certificate : {NilBytes}]]
  /\ issuers = {}
  /\ secret = [exists |-> FALSE, keys |-> {}]
  /\ pendingSince = [r \in Requests |-> -1]
  /\ last = NoPass
  /\ started = [r \in Requests |-> FALSE]
  /\ DNSIdle
  /\ IssuerIdle

(* ------------------------------ actions -------------------------------- *)

\* one Reconcile pass of request r; accepted tells whether the API server
\* takes the status update (it refuses on a conflict or a transport error)
Reconcile(r, accepted) ==
  LET res == ReconcileResult(crs[r], issuers, now)
      stored == res.wrote /\ accepted /\ crs[r].exists
      after == IF stored THEN res.object ELSE crs[r]
  IN /\ crs' = [crs EXCEPT ![r] = after]
     /\ pendingSince' =
          [pendingSince EXCEPT ![r] =
             IF hasProcessingCondition(after) /\ ~hasProcessingCondition(crs[r])
             THEN now ELSE @]
     /\ started' = [started EXCEPT ![r] = @ \/ res.branch = "first-cycle"]
     /\ last' = [seq |-> 1 - last.seq, req |-> r,
                 branch |-> res.branch, wrote |-> res.wrote,
                 persisted |-> stored, requeueAfter |-> res.requeueAfter,
                 err |-> res.err, events |-> res.events, calls |-> res.calls]
     /\ UNCHANGED <<now, issuers, secret>>
     /\ UNCHANGED dnsVars
     /\ UNCHANGED issuerVars

Tick ==
  /\ now + TickStep <= MaxTime
  /\ now' = now + TickStep
  /\ UNCHANGED <<crs, issuers, secret, pendingSince, last, started>>
  /\ UNCHANGED dnsVars
  /\ UNCHANGED issuerVars

IssuerCreate(k) ==
  /\ k \notin issuers
  /\ issuers' = issuers \cup {k}
  /\ UNCHANGED <<now, crs, secret, pendingSince, last, started>>
  /\ UNCHANGED dnsVars
  /\ UNCHANGED issuerVars

IssuerDelete(k) ==
  /\ k \in issuers
  /\ issuers' = issuers \ {k}
  /\ UNCHANGED <<now, crs, secret, pendingSince, last, started>>
  /\ UNCHANGED dnsVars
  /\ UNCHANGED issuerVars

\* the operator creates, edits or deletes the credential secret
SecretSet(s) ==
  /\ s # secret
  /\ secret' = s
  /\ UNCHANGED <<now, crs, issuers, pendingSince, last, started>>
  /\ UNCHANGED dnsVars
  /\ UNCHANGED issuerVars

RequestDelete(r) ==
  /\ crs[r].exists
  /\ crs' = [crs EXCEPT ![r].exists = FALSE]
  /\ UNCHANGED <<now, issuers, secret, pendingSince, last, started>>
  /\ UNCHANGED dnsVars
  /\ UNCHANGED issuerVars

Secrets ==
  {[exists |-> FALSE, keys |-> {}], [exists |-> TRUE, keys |-> {}],
   [exists |-> TRUE, keys |-> {"token"}]}

Next ==
  \/ \E r \in Requests, accepted \in BOOLEAN : Reconcile(r, accepted)
  \/ Tick
  \/ \E k \in {"DigicloudIssuer", "DigicloudClusterIssuer"} : IssuerCreate(k)
  \/ \E k \in {"DigicloudIssuer", "DigicloudClusterIssuer"} : IssuerDelete(k)
  \/ \E s \in Secrets : SecretSet(s)
  \/ \E r \in Requests : RequestDelete(r)

Spec == Init /\ [][Next]_vars

(* ------------------- the controller under fair scheduling -------------- *)

\* both issuers exist and stay, every request exists
InitLive ==
  /\ now = 0
  /\ crs \in [Requests ->
                [exists : {TRUE}, issuerRef : IssuerRefs, request : CSRs,
                 conditions : {<<>>, <<ApprovedCondition>>},
                 certificate : {NilBytes}]]
  /\ issuers = {"DigicloudIssuer", "DigicloudClusterIssuer"}
  /\ secret = [exists |-> TRUE, keys |-> {"token"}]
  /\ pendingSince = [r \in Requests |-> -1]
  /\ last = NoPass
  /\ started = [r \in Requests |-> FALSE]
  /\ DNSIdle
  /\ IssuerIdle

\* a time stamp TickStep seconds further in the past, as far as the clock
\* reaches back
Older(t) == IF t - TickStep < 0 THEN 0 ELSE t - TickStep

\* time passes without end: the clock advances up to MaxTime, and from then
\* on every recorded time stamp moves TickStep seconds into the past
TickLive ==
  /\ IF now + TickStep <= MaxTime
     THEN /\ now' = now + TickStep
          /\ UNCHANGED <<crs, pendingSince>>
     ELSE /\ now' = now
          /\ crs' = [r \in Requests |->
                       [crs[r] EXCEPT !.conditions =
                          [i \in DOMAIN @ |-> [@[i] EXCEPT !.ltt = Older(@)]]]]
          /\ pendingSince' =
               [r \in Requests |->
                  IF pendingSince[r] < 0 THEN pendingSince[r]
                  ELSE Older(pendingSince[r])]
  /\ UNCHANGED <<issuers, secret, last, started>>
  /\ UNCHANGED dnsVars
  /\ UNCHANGED issuerVars

\* passes whose status writes succeed, run at arbitrary times
NextLive ==
  \/ \E r \in Requests : Reconcile(r, TRUE)
  \/ TickLive

\* every request is reconciled again and again, and time keeps passing
SpecLive ==
  /\ InitLive
  /\ [][NextLive]_vars
  /\ WF_vars(TickLive)
  /\ \A r \in Requests : WF_vars(Reconcile(r, TRUE))

\* requests of other issuers, with the statuses their own controllers
\* left on them
ForeignRefs ==
  {[group |-> DigicloudGroup, kind |-> "Issuer"],
   [group |-> "cert-manager.io", kind |-> "DigicloudIssuer"]}

ForeignStatuses ==
  {[conditions |-> <<>>, certificate |-> NilBytes],
   [conditions |-> <<ApprovedCondition>>, certificate |-> NilBytes],
   [conditions |-> <<ApprovedCondition,
                     [type |-> "Ready", status |-> "False",
                      reason |-> "Pending", message |-> "waiting", ltt |-> 0]>>,
    certificate |-> NilBytes],
   [conditions |-> <<ApprovedCondition,
                     [type |-> "Ready", status |-> "False",
                      reason |-> "Failed", message |-> "failed", ltt |-> 0]>>,
    certificate |-> NilBytes],
   [conditions |-> <<ApprovedCondition,
                     [type |-> "Ready", status |-> "True",
                      reason |-> "Issued", message |-> "issued", ltt |-> 0]>>,
    certificate |-> MockCert]}

InitForeign ==
  /\ now = 0
  /\ crs \in {[r \in Requests |->
                 [exists |-> TRUE, issuerRef |-> ref, request |-> csr,
                  conditions |-> st.conditions,
                  certificate |-> st.certificate]] :
                ref \in ForeignRefs, csr \in CSRs, st \in ForeignStatuses}
  /\ issuers = {}
  /\ secret = [exists |-> FALSE, keys |-> {}]
  /\ pendingSince = [r \in Requests |-> -1]
  /\ last = NoPass
  /\ started = [r \in Requests |-> FALSE]
  /\ DNSIdle
  /\ IssuerIdle

SpecForeign == InitForeign /\ [][Next]_vars

(* ------------------------- the provider's calls ------------------------ *)

\* no certificate request exists
ReconIdle ==
  /\ now = 0
  /\ crs = [r \in Requests |->
              [exists |-> FALSE, issuerRef |-> CHOOSE ref \in IssuerRefs : TRUE,
               request |-> CHOOSE csr \in CSRs : TRUE, conditions |-> <<>>,
               certificate |-> NilBytes]]
  /\ issuers = {}
  /\ secret = [exists |-> FALSE, keys |-> {}]
  /\ pendingSince = [r \in Requests |-> -1]
  /\ last = NoPass
  /\ started = [r \in Requests |-> FALSE]

\* the characters of the names handed to the zone resolver
Alphabet == {"a", "b", "."}

Names == UNION {[1..n -> Alphabet] : n \in 0..MaxLen}

InitResolver ==
  /\ ReconIdle
  /\ IssuerIdle
  /\ resolver \in {[NoResolve EXCEPT !.fqdn = f] : f \in Names}
  /\ records = <<>>
  /\ nextId = 1
  /\ inflight = [w \in Workers |-> NoCleanup]
  /\ ret = NoReturn
  /\ created = NoCreate

\* Present lines 77 and 90, CleanUp lines 116 and 129: the zone of the name,
\* then the record name inside that zone
Resolve ==
  /\ ~resolver.done
  /\ LET domainName == extractDomainName(resolver.fqdn)
     IN resolver' = [resolver EXCEPT
                       !.done = TRUE,
                       !.zone = domainName,
                       !.label = extractRecordName(resolver.fqdn, domainName)]
  /\ UNCHANGED <<records, nextId, inflight, ret, created>>
  /\ UNCHANGED reconVars /\ UNCHANGED issuerVars

NextResolver == Resolve

SpecResolver == InitResolver /\ [][NextResolver]_vars

\* the challenges: an empty domain, a zone's own name under two key
\* authorizations, and a name below the zone
Challenges ==
  {[domain |-> EmptyString, keyAuth |-> "k1"],
   [domain |-> <<"b", ".", "c">>, keyAuth |-> "k1"],
   [domain |-> <<"b", ".", "c">>, keyAuth |-> "k2"],
   [domain |-> <<"a", ".", "b", ".", "c">>, keyAuth |-> "k1"]}

\* the answers of the API to a POST, a GET and a DELETE
PostAnswers ==
  {Answer(202), Answer(200), Answer(500), TransportFailure}

GetAnswers == {Answer(200), Undecodable, Answer(500), TransportFailure}

DeleteAnswers ==
  {Answer(204), Answer(200), Answer(404), TransportFailure}

\* the records a zone may hold before the provider's first call: none, a TXT
\* record equal to a challenge's, or a record of another type with a
\* challenge's name and content
InitialRecords ==
  {<<>>}
  \cup {<<[id |-> 1, zone |-> <<"b", ".", "c">>, name |-> <<"_acme-challenge">>,
            ttl |-> DefaultTTL, type |-> t,
            content |-> GetChallengeInfo(<<"b", ".", "c">>, "k1").Value]>> :
          t \in {"TXT", "CNAME"}}

InitDNS ==
  /\ ReconIdle
  /\ IssuerIdle
  /\ resolver = NoResolve
  /\ records \in InitialRecords
  /\ nextId = Len(records) + 1
  /\ inflight = [w \in Workers |-> NoCleanup]
  /\ ret = NoReturn
  /\ created = NoCreate

\* the API makes the record on every 2xx answer to the POST
ServerCreates(resp) == ~resp.failed /\ resp.status \in 200..299

\* the API removes the record on every 2xx answer to the DELETE
ServerDeletes(resp) == ~resp.failed /\ resp.status \in 200..299

\* GET /v1/edge/domains/{id}/records: the zone's records, oldest first
Listing(domainID) ==
  LET InZone(rec) == rec.zone = domainID
  IN SelectSeq(records, InZone)

\* the record of a call's return: the requests it sent, the last answer it
\* got, and the record id and the error it ended with
Return(op, domain, keyAuth, sent, resp, id, err) ==
  [seq |-> 1 - ret.seq, op |-> op, domain |-> domain, keyAuth |-> keyAuth,
   sent |-> sent, resp |-> resp, id |-> id, err |-> err]

\* lines 71-108
Present(domain, keyAuth, resp) ==
  LET info == GetChallengeInfo(domain, keyAuth)
      domainName == extractDomainName(info.EffectiveFQDN)
      domainID == getDomainID(domainName).id
      recordName == extractRecordName(info.EffectiveFQDN, domainName)
      record == [name |-> recordName, ttl |-> DefaultTTL, type |-> "TXT",
                 content |-> info.Value]
      err == createTXTRecord(resp)
  IN IF domainName = EmptyString
     THEN /\ ret' = Return("Present", domain, keyAuth, <<>>, NoAnswer, NoID,
                           "could not extract domain name")
          /\ UNCHANGED <<records, nextId, created>>
     ELSE /\ ServerCreates(resp) => nextId <= MaxId
          /\ records' =
               IF ServerCreates(resp)
               THEN Append(records,
                           [id |-> nextId, zone |-> domainID,
                            name |-> record.name, ttl |-> record.ttl,
                            type |-> record.type, content |-> record.content])
               ELSE records
          /\ nextId' = IF ServerCreates(resp) THEN nextId + 1 ELSE nextId
          /\ created' =
               IF err = "nil"
               THEN [id |-> nextId, zone |-> domainID, name |-> recordName,
                     content |-> info.Value]
               ELSE created
          /\ ret' = Return("Present", domain, keyAuth, <<"POST">>, resp, NoID,
                           IF err = "nil" THEN "nil"
                           ELSE "failed to create TXT record")

\* the error of findTXTRecord not looked at
CleanUpFind_IgnoresFindError(w, domain, keyAuth, resp) ==
  LET info == GetChallengeInfo(domain, keyAuth)
      domainName == extractDomainName(info.EffectiveFQDN)
      domainID == getDomainID(domainName).id
      recordName == extractRecordName(info.EffectiveFQDN, domainName)
      found == findTXTRecord(resp, Listing(domainID), recordName, info.Value)
  IN /\ ~inflight[w].busy
     /\ IF domainName = EmptyString
        THEN /\ ret' = Return("CleanUp", domain, keyAuth, <<>>, NoAnswer, NoID,
                              "could not extract domain name")
             /\ UNCHANGED inflight
        ELSE IF found.id = NoID
        THEN /\ ret' = Return("CleanUp", domain, keyAuth, <<"GET">>,
                              resp, NoID, "nil")
             /\ UNCHANGED inflight
        ELSE /\ ret' = Return("findTXTRecord", domain, keyAuth, <<"GET">>,
                              resp, found.id, "nil")
             /\ inflight' = [inflight EXCEPT ![w] =
                               [busy |-> TRUE, domain |-> domain,
                                keyAuth |-> keyAuth, id |-> found.id]]
     /\ UNCHANGED <<records, nextId, created>>

\* lines 110-135: CleanUp up to the return of findTXTRecord
CleanUpFind(w, domain, keyAuth, resp) ==
  LET info == GetChallengeInfo(domain, keyAuth)
      domainName == extractDomainName(info.EffectiveFQDN)
      domainID == getDomainID(domainName).id
      recordName == extractRecordName(info.EffectiveFQDN, domainName)
      found == findTXTRecord(resp, Listing(domainID), recordName, info.Value)
  IN /\ ~inflight[w].busy
     /\ IF domainName = EmptyString
        THEN /\ ret' = Return("CleanUp", domain, keyAuth, <<>>, NoAnswer, NoID,
                              "could not extract domain name")
             /\ UNCHANGED inflight
        ELSE IF found.err # "nil"
        THEN /\ ret' = Return("CleanUp", domain, keyAuth, <<"GET">>,
                              resp, NoID, "failed to find TXT record")
             /\ UNCHANGED inflight
        ELSE IF found.id = NoID
        THEN /\ ret' = Return("CleanUp", domain, keyAuth, <<"GET">>,
                              resp, NoID, "nil")
             /\ UNCHANGED inflight
        ELSE /\ ret' = Return("findTXTRecord", domain, keyAuth, <<"GET">>,
                              resp, found.id, "nil")
             /\ inflight' = [inflight EXCEPT ![w] =
                               [busy |-> TRUE, domain |-> domain,
                                keyAuth |-> keyAuth, id |-> found.id]]
     /\ UNCHANGED <<records, nextId, created>>

\* lines 137-147: CleanUp from deleteTXTRecord to its return
CleanUpDelete(w, resp) ==
  LET job == inflight[w]
      present == \E i \in DOMAIN records : records[i].id = job.id
      Kept(rec) == rec.id # job.id
      err == deleteTXTRecord(resp)
  IN /\ job.busy
     /\ ServerDeletes(resp) => present
     /\ (~resp.failed /\ resp.status = 404) => ~present
     /\ records' = IF ServerDeletes(resp) THEN SelectSeq(records, Kept)
                   ELSE records
     /\ inflight' = [inflight EXCEPT ![w] = NoCleanup]
     /\ ret' = Return("CleanUp", job.domain, job.keyAuth, <<"GET", "DELETE">>,
                      resp, job.id,
                      IF err = "nil" THEN "nil"
                      ELSE "failed to delete TXT record")
     /\ UNCHANGED <<nextId, created>>

\* the worker of the specification in which CleanUp calls follow one another
Sequential == {"w1"}

NextDNS ==
  \/ \E ch \in Challenges, resp \in PostAnswers :
       Present(ch.domain, ch.keyAuth, resp)
       /\ UNCHANGED <<resolver, inflight>> /\ UNCHANGED reconVars /\ UNCHANGED issuerVars
  \/ \E w \in Sequential, ch \in Challenges, resp \in GetAnswers :
       CleanUpFind(w, ch.domain, ch.keyAuth, resp)
       /\ UNCHANGED resolver /\ UNCHANGED reconVars /\ UNCHANGED issuerVars
  \/ \E w \in Sequential, resp \in DeleteAnswers :
       CleanUpDelete(w, resp) /\ UNCHANGED resolver /\ UNCHANGED reconVars /\ UNCHANGED issuerVars

SpecDNS == InitDNS /\ [][NextDNS]_vars

\* challenges in flight together: one record name under two key
\* authorizations (a domain and its wildcard), and a name below the zone
InFlightChallenges ==
  {ch \in Challenges : ch.domain # EmptyString}

\* the answers the API gives while several calls are in flight
ConcurrentPostAnswers == {Answer(202), TransportFailure}

ConcurrentGetAnswers == {Answer(200), Answer(500)}

ConcurrentDeleteAnswers == {Answer(204), Answer(404), TransportFailure}

\* Present and CleanUp calls of several challenges, the requests of the
\* CleanUp calls interleaved
NextConcurrent ==
  \/ \E ch \in InFlightChallenges, resp \in ConcurrentPostAnswers :
       Present(ch.domain, ch.keyAuth, resp)
       /\ UNCHANGED <<resolver, inflight>>
       /\ UNCHANGED reconVars /\ UNCHANGED issuerVars
  \/ \E w \in Workers, ch \in InFlightChallenges, resp \in ConcurrentGetAnswers :
       CleanUpFind(w, ch.domain, ch.keyAuth, resp)
       /\ UNCHANGED resolver /\ UNCHANGED reconVars /\ UNCHANGED issuerVars
  \/ \E w \in Workers, resp \in ConcurrentDeleteAnswers :
       CleanUpDelete(w, resp)
       /\ UNCHANGED resolver /\ UNCHANGED reconVars /\ UNCHANGED issuerVars

SpecConcurrent == InitDNS /\ [][NextConcurrent]_vars

(* ------------------------- the issuer controllers ---------------------- *)

\* the name of the one credential secret of a namespace
SecretName == "creds"

\* the secret references an issuer may carry
SecretRefs == [name : {"", SecretName}, key : {"", "token"}]

\* r.Get of the secret: found when the reference names the secret of the
\* namespace and that secret exists
SecretFound(ref, namespace) ==
  /\ namespace \in SecretNamespaces
  /\ ref.name = SecretName
  /\ isecrets[namespace].exists

\* the key check is left out
validateIssuer_KeyUnchecked(issuer) ==
  LET ref == issuer.secretRef
  IN IF ref.name = "" \/ ref.key = ""
     THEN "secret reference must specify both name and key"
     ELSE IF ~SecretFound(ref, issuer.namespace) THEN "secret not found"
     ELSE "nil"

\* part_003 lines 94-124: the secret is looked up in the issuer's namespace
validateIssuer(issuer) ==
  LET ref == issuer.secretRef
  IN IF ref.name = "" \/ ref.key = ""
     THEN "secret reference must specify both name and key"
     ELSE IF ~SecretFound(ref, issuer.namespace) THEN "secret not found"
     ELSE IF ref.key \notin isecrets[issuer.namespace].keys
     THEN "secret does not contain key"
     ELSE "nil"

\* part_003 lines 216-249: the secret is looked up in a fixed namespace
validateClusterIssuer(issuer) ==
  LET ref == issuer.secretRef
  IN IF ref.name = "" \/ ref.key = ""
     THEN "secret reference must specify both name and key"
     ELSE IF ~SecretFound(ref, ClusterSecretNamespace) THEN "secret not found"
     ELSE IF ref.key \notin isecrets[ClusterSecretNamespace].keys
     THEN "secret does not contain key"
     ELSE "nil"

\* the Ready condition added without looking for the one in place
setReadyCondition_AlwaysAppends(issuer, reason, message, t) ==
  LET status == IF reason = "Failed" THEN "False" ELSE "True"
      cond == [type |-> ConditionReady, status |-> status, reason |-> reason,
               message |-> message, ltt |-> t]
  IN [issuer EXCEPT !.conditions = Append(@, cond)]

\* part_003 lines 126-154
setReadyCondition(issuer, reason, message, t) ==
  LET status == IF reason = "Failed" THEN "False" ELSE "True"
      cond == [type |-> ConditionReady, status |-> status, reason |-> reason,
               message |-> message, ltt |-> t]
      i == FirstReady(issuer.conditions)
  IN IF i = 0
     THEN [issuer EXCEPT !.conditions = Append(@, cond)]
     ELSE [issuer EXCEPT !.conditions[i] = cond]

\* part_003 lines 251-279
setClusterReadyCondition(issuer, reason, message, t) ==
  LET status == IF reason = "Failed" THEN "False" ELSE "True"
      cond == [type |-> ConditionReady, status |-> status, reason |-> reason,
               message |-> message, ltt |-> t]
      i == FirstReady(issuer.conditions)
  IN IF i = 0
     THEN [issuer EXCEPT !.conditions = Append(@, cond)]
     ELSE [issuer EXCEPT !.conditions[i] = cond]

\* a missing issuer is reported as an error
NotFoundResult_Error(issuer) ==
  [wrote |-> FALSE, object |-> issuer, err |-> "issuer not found"]

\* part_003 lines 56-65, 178-187: the issuer is gone
NotFoundResult(issuer) ==
  [wrote |-> FALSE, object |-> issuer, err |-> "nil"]

\* part_003 lines 53-92 and 175-214, up to the status write: the object
\* handed to Status().Update and the error returned when the write succeeds
IssuerReconcileResult(kind, issuer, t) ==
  IF ~issuer.exists THEN NotFoundResult(issuer)
  ELSE IF kind = "DigicloudIssuer"
  THEN LET err == validateIssuer(issuer)
       IN IF err # "nil"
          THEN [wrote |-> TRUE,
                object |-> setReadyCondition(issuer, "Failed", err, t),
                err |-> err]
          ELSE [wrote |-> TRUE,
                object |-> setReadyCondition(issuer, "Checked",
                                             "Issuer configuration is valid", t),
                err |-> "nil"]
  ELSE LET err == validateClusterIssuer(issuer)
       IN IF err # "nil"
          THEN [wrote |-> TRUE,
                object |-> setClusterReadyCondition(issuer, "Failed", err, t),
                err |-> err]
          ELSE [wrote |-> TRUE,
                object |-> setClusterReadyCondition(
                             issuer, "Checked",
                             "Cluster issuer configuration is valid", t),
                err |-> "nil"]

InitIssuer ==
  /\ ReconIdle
  /\ DNSIdle
  /\ IssuerIdle

\* one Reconcile pass of the issuer of a kind; accepted tells whether the
\* API server takes the status update
IssuerReconcile(kind, accepted) ==
  LET res == IssuerReconcileResult(kind, iobj[kind], now)
      stored == res.wrote /\ accepted
  IN /\ iobj' = [iobj EXCEPT ![kind] = IF stored THEN res.object ELSE @]
     /\ ilast' = [seq |-> 1 - ilast.seq, kind |-> kind, wrote |-> res.wrote,
                  persisted |-> stored, requeueAfter |-> 0,
                  err |-> IF res.wrote /\ ~accepted
                          THEN "status update failed" ELSE res.err]
     /\ UNCHANGED <<isecrets, built>>
     /\ UNCHANGED reconVars /\ UNCHANGED dnsVars

\* the operator creates the issuer of a kind or edits its secret reference
IssuerApply(kind, ref) ==
  /\ iobj[kind].secretRef # ref \/ ~iobj[kind].exists
  /\ iobj' = [iobj EXCEPT ![kind] =
                [exists |-> TRUE,
                 namespace |-> IF kind = "DigicloudIssuer"
                               THEN IssuerNamespace ELSE "",
                 secretRef |-> ref,
                 conditions |-> IF @.exists THEN @.conditions ELSE <<>>]]
  /\ UNCHANGED <<isecrets, ilast, built>>
  /\ UNCHANGED reconVars /\ UNCHANGED dnsVars

\* the operator deletes the issuer of a kind
IssuerRemove(kind) ==
  /\ iobj[kind].exists
  /\ iobj' = [iobj EXCEPT ![kind] = NoIssuer]
  /\ UNCHANGED <<isecrets, ilast, built>>
  /\ UNCHANGED reconVars /\ UNCHANGED dnsVars

\* the states of a namespace's credential secret
SecretStates ==
  {NoSecret, [exists |-> TRUE, keys |-> {}], [exists |-> TRUE, keys |-> {"token"}]}

\* the operator creates, edits or deletes the secret of a namespace
SecretApply(namespace, sec) ==
  /\ isecrets[namespace] # sec
  /\ isecrets' = [isecrets EXCEPT ![namespace] = sec]
  /\ UNCHANGED <<iobj, ilast, built>>
  /\ UNCHANGED reconVars /\ UNCHANGED dnsVars

NextIssuer ==
  \/ \E k \in IssuerKinds, accepted \in BOOLEAN : IssuerReconcile(k, accepted)
  \/ \E k \in IssuerKinds, ref \in SecretRefs : IssuerApply(k, ref)
  \/ \E k \in IssuerKinds : IssuerRemove(k)
  \/ \E n \in SecretNamespaces, sec \in SecretStates : SecretApply(n, sec)

SpecIssuer == InitIssuer /\ [][NextIssuer]_vars

(* ------------------ building the provider from a secret ---------------- *)

\* secret.Data[key]
DataEntry(data, key) ==
  IF key = "token" THEN data.token
  ELSE IF key = "namespace" THEN data.namespace
  ELSE AbsentEntry

\* part_003 lines 338-374: the token, the tenant namespace and the error
getAPIToken(exists, data, secretKey) ==
  IF ~exists
  THEN [token |-> "", namespace |-> "", err |-> "failed to get secret"]
  ELSE IF ~DataEntry(data, secretKey).has
  THEN [token |-> "", namespace |-> "", err |-> "secret does not contain key"]
  ELSE [token |-> DataEntry(data, secretKey).val,
        namespace |-> IF DataEntry(data, "namespace").has
                      THEN DataEntry(data, "namespace").val
                      ELSE "default",
        err |-> "nil"]

\* part_003 lines 376-382
getTTL(ttl) == IF ttl.set THEN ttl.val ELSE DefaultTTL

\* digicloud.go lines 26-45: the fields the provider is built with
NewDigicloudProvider(apiToken, namespace, ttl) ==
  [apiToken |-> apiToken, namespace |-> namespace,
   ttl |-> IF ttl = 0 THEN DefaultTTL ELSE ttl]

\* digicloud.go lines 292-305
NewDigicloudDNSProviderFromIssuerAndSecretData(data) ==
  LET apiToken == DataEntry(data, "token").val
      namespace == DataEntry(data, "namespace").val
  IN NewDigicloudProvider(apiToken,
                          IF namespace = "" THEN "default" ELSE namespace,
                          DefaultTTL)

\* the secrets, secret keys and TTLs a provider is built from
SecretDatas ==
  [token : {AbsentEntry, Entry(""), Entry("tok")},
   namespace : {AbsentEntry, Entry(""), Entry("tenant-a")}]

SecretKeys == {"token", "api-key"}

TTLs == {NilTTL, [set |-> TRUE, val |-> 0], [set |-> TRUE, val |-> 60]}

InitSigner ==
  /\ ReconIdle
  /\ DNSIdle
  /\ iobj = [k \in IssuerKinds |-> NoIssuer]
  /\ isecrets = [n \in SecretNamespaces |-> NoSecret]
  /\ ilast = NoIssuerPass
  /\ built \in {[NoBuild EXCEPT !.path = p, !.exists = e, !.secretKey = k,
                                !.data = d, !.ttl = t] :
                  p \in {"Sign", "FromSecretData"}, e \in BOOLEAN,
                  k \in SecretKeys, d \in SecretDatas, t \in TTLs}

\* a signing that hands the mock certificate back
Sign_ReturnsBundle(exists, data, secretKey, ttl) ==
  LET got == getAPIToken(exists, data, secretKey)
      provider == NewDigicloudProvider(got.token, got.namespace, getTTL(ttl))
  IN IF got.err # "nil"
     THEN [bundle |-> NilBytes, err |-> "failed to get API token",
           hasProvider |-> FALSE, provider |-> provider]
     ELSE [bundle |-> MockCert, err |-> "nil",
           hasProvider |-> TRUE, provider |-> provider]

\* part_003 lines 304-336: the PEM bundle and the error Sign returns, and
\* the provider it builds on the way
Sign(exists, data, secretKey, ttl) ==
  LET got == getAPIToken(exists, data, secretKey)
      provider == NewDigicloudProvider(got.token, got.namespace, getTTL(ttl))
  IN IF got.err # "nil"
     THEN [bundle |-> NilBytes, err |-> "failed to get API token",
           hasProvider |-> FALSE, provider |-> provider]
     ELSE [bundle |-> NilBytes,
           err |-> "certificate signing not yet implemented",
           hasProvider |-> TRUE, provider |-> provider]

\* part_003 lines 304-336: one call of Sign
SignBuild ==
  /\ ~built.done /\ built.path = "Sign"
  /\ LET signed == Sign(built.exists, built.data, built.secretKey, built.ttl)
     IN built' =
          IF ~signed.hasProvider
          THEN [built EXCEPT !.done = TRUE, !.err = "failed to get API token",
                             !.bundle = signed.bundle, !.signErr = signed.err]
          ELSE [built EXCEPT !.done = TRUE,
                             !.token = signed.provider.apiToken,
                             !.namespace = signed.provider.namespace,
                             !.providerTTL = signed.provider.ttl,
                             !.bundle = signed.bundle, !.signErr = signed.err]
  /\ UNCHANGED <<iobj, isecrets, ilast>>
  /\ UNCHANGED reconVars /\ UNCHANGED dnsVars

\* digicloud.go lines 292-305
FromSecretDataBuild ==
  /\ ~built.done /\ built.path = "FromSecretData"
  /\ LET provider == NewDigicloudDNSProviderFromIssuerAndSecretData(built.data)
     IN built' = [built EXCEPT !.done = TRUE, !.token = provider.apiToken,
                               !.namespace = provider.namespace,
                               !.providerTTL = provider.ttl]
  /\ UNCHANGED <<iobj, isecrets, ilast>>
  /\ UNCHANGED reconVars /\ UNCHANGED dnsVars

NextSigner == SignBuild \/ FromSecretDataBuild

SpecSigner == InitSigner /\ [][NextSigner]_vars

(* ------------------------ vocabulary of the claims --------------------- *)

\* the Ready condition r's persisted status shows, or NoCondition
NoCondition ==
  [type |-> "none", status |-> "none", reason |-> "none", message |-> "none",
   ltt |-> -1]

ReadyOf(c) ==
  IF \E i \in DOMAIN c.conditions : c.conditions[i].type = "Ready"
  THEN c.conditions[CHOOSE i \in DOMAIN c.conditions :
         /\ c.conditions[i].type = "Ready"
         /\ \A j \in 1..(i - 1) : c.conditions[j].type # "Ready"]
  ELSE NoCondition

ReadyIs(c, status, reason) ==
  ReadyOf(c).status = status /\ ReadyOf(c).reason = reason

IsIssued(c) == ReadyIs(c, "True", "Issued")
IsFailed(c) == ReadyIs(c, "False", "Failed")
IsPending(c) == ReadyIs(c, "False", "Pending")
HasCert(c) == c.certificate # <<>>
RefersToDigicloud(c) ==
  /\ c.issuerRef.group = "digicloud.issuer.vamirreza.github.io"
  /\ c.issuerRef.kind \in {"DigicloudIssuer", "DigicloudClusterIssuer"}
IssuerFound(c) == c.issuerRef.kind \in issuers
CSRParses(c) == c.request.pem /\ c.request.der = "csr"
SecretUsable == secret.exists /\ "token" \in secret.keys
\* a request Reconcile still works on
Live(c) == c.exists /\ RefersToDigicloud(c) /\ ~HasCert(c) /\ ~IsFailed(c)

\* this step is a Reconcile pass of request r
PassOn(r) == last'.seq # last.seq /\ last'.req = r

\* the status of r is the same before and after the step
StatusKept(r) ==
  /\ crs'[r].conditions = crs[r].conditions
  /\ crs'[r].certificate = crs[r].certificate

(* ------------------------------- claims -------------------------------- *)

\* C1: a request whose persisted Ready condition is Issued, or whose
\* certificate is set, is never re-processed: no step changes its conditions
\* or its certificate, and a Reconcile pass of it writes nothing and
\* schedules no requeue, whatever the issuer and the CSR are.
C1_IssuedNeverReprocessed ==
  [][\A r \in Requests :
       (IsIssued(crs[r]) \/ HasCert(crs[r])) =>
         /\ StatusKept(r)
         /\ PassOn(r) =>
              /\ ~last'.wrote
              /\ last'.requeueAfter = 0
              /\ last'.err = "nil"]_vars

\* C1 witness: an issued request was reconciled again while its issuer is
\* gone.
C1_Witness ==
  \E r \in Requests :
    /\ last.req = r
    /\ last.branch = "complete"
    /\ IsIssued(crs[r]) /\ HasCert(crs[r])
    /\ ~IssuerFound(crs[r])

\* C2: a request whose persisted Ready condition is False/Failed is
\* terminal: a Reconcile pass of it changes nothing, contacts neither the
\* issuer nor the DNS provider, and schedules no requeue.
C2_FailedIsTerminal ==
  [][\A r \in Requests :
       IsFailed(crs[r]) =>
         /\ StatusKept(r)
         /\ PassOn(r) =>
              /\ ~last'.wrote
              /\ last'.calls = {}
              /\ last'.requeueAfter = 0
              /\ last'.err = "nil"]_vars

\* C2 witness: a Failed request was reconciled again at a later time.
C2_Witness ==
  \E r \in Requests :
    /\ last.req = r
    /\ last.branch = "has-failed"
    /\ IsFailed(crs[r])
    /\ now > ReadyOf(crs[r]).ltt

\* C3: a Reconcile pass of a request that is already Pending is never a
\* first cycle: it invokes no Create (Present) on the DNS provider and does
\* not record the event of a started validation.
C3_NoSecondCreate ==
  [][\A r \in Requests :
       (PassOn(r) /\ crs[r].exists /\ IsPending(crs[r])) =>
         /\ "Present" \notin last'.calls
         /\ "Processing" \notin last'.events
         /\ last'.branch # "first-cycle"]_vars

\* C3 witness: a Pending request was reconciled again and stayed Pending.
C3_Witness ==
  \E r \in Requests :
    /\ last.req = r
    /\ last.branch = "waiting"
    /\ last.persisted
    /\ IsPending(crs[r])
    /\ ReadyOf(crs[r]).message = "DNS validation in progress"

\* C4: cleanup is unconditional: the pass that takes a request whose
\* challenge was started to a terminal disposition (Issued or Failed)
\* invokes the Challenge Record Manager's Delete (CleanUp).
C4_CleanupOnTerminal ==
  [][\A r \in Requests :
       (/\ PassOn(r)
        /\ IsPending(crs[r])
        /\ ReadyOf(crs[r]).message = "DNS validation in progress"
        /\ (IsIssued(crs'[r]) \/ IsFailed(crs'[r])))
       => "CleanUp" \in last'.calls]_vars

\* C5: the first pass of a request with a resolvable issuer and a parseable
\* CSR, and no Pending condition yet, creates the DNS challenge record
\* (Present) before it sets Ready=False/Pending "DNS validation in progress".
C5_FirstCycleCreatesRecord ==
  [][\A r \in Requests :
       (/\ PassOn(r)
        /\ Live(crs[r]) /\ IssuerFound(crs[r]) /\ CSRParses(crs[r])
        /\ ReadyOf(crs[r]).reason # "Pending"
        /\ ~IsIssued(crs[r]))
       => /\ "Present" \in last'.calls
          /\ last'.persisted =>
               /\ IsPending(crs'[r])
               /\ ReadyOf(crs'[r]).message = "DNS validation in progress"]_vars

\* C6: while a request is Pending and the wait has not elapsed, a pass
\* re-schedules without action: the persisted status, and with it the
\* lastTransitionTime of the Pending condition, stays as it was.
C6_WaitingPassKeepsStatus ==
  [][\A r \in Requests :
       (/\ PassOn(r)
        /\ Live(crs[r]) /\ IssuerFound(crs[r]) /\ CSRParses(crs[r])
        /\ IsPending(crs[r])
        /\ ReadyOf(crs[r]).message = "DNS validation in progress"
        /\ now - pendingSince[r] <= 300
        /\ now - ReadyOf(crs[r]).ltt <= 30)
       => /\ StatusKept(r)
          /\ last'.requeueAfter > 0]_vars

\* C7: a certificate is issued, or the request failed by the certificate
\* authority step, only in a pass that runs after the propagation timeout
\* (5 minutes) has elapsed since Pending was first set.
C7_CompletionAfterPropagationTimeout ==
  [][\A r \in Requests :
       (/\ PassOn(r)
        /\ IsPending(crs[r]) /\ CSRParses(crs[r])
        /\ ReadyOf(crs[r]).message = "DNS validation in progress"
        /\ (HasCert(crs'[r]) \/ IsIssued(crs'[r]) \/ IsFailed(crs'[r])))
       => /\ pendingSince[r] >= 0
          /\ now - pendingSince[r] > 300]_vars

\* C8: a pass that reaches the completion step hands the API server a
\* status with the certificate bytes and Ready=True/Issued when the step
\* succeeds, and with Ready=False/Failed and no certificate when it fails;
\* the persisted status is exactly that when the write is accepted and is
\* untouched when it is refused; no requeue is scheduled in either case.
C8_CompletionOutcome ==
  [][\A r \in Requests :
       (/\ PassOn(r)
        /\ Live(crs[r]) /\ IssuerFound(crs[r]) /\ CSRParses(crs[r])
        /\ IsPending(crs[r])
        /\ now - ReadyOf(crs[r]).ltt > 30)
       => /\ last'.wrote
          /\ last'.requeueAfter = 0
          /\ last'.err = "nil"
          /\ ~last'.persisted => StatusKept(r)
          /\ last'.persisted =>
               IF generateMockCertificate(crs[r].request).err = "nil"
               THEN /\ crs'[r].certificate = MockCert
                    /\ IsIssued(crs'[r])
                    /\ ReadyOf(crs'[r]).ltt = now
               ELSE /\ crs'[r].certificate = <<>>
                    /\ IsFailed(crs'[r])]_vars

\* C8 witness: a completion pass was accepted: the certificate is stored
\* with Ready=True/Issued and nothing is requeued.
C8_Witness ==
  \E r \in Requests :
    /\ last.req = r
    /\ last.branch = "issued"
    /\ last.persisted
    /\ last.requeueAfter = 0
    /\ crs[r].certificate = MockCert
    /\ IsIssued(crs[r])

\* C9: when the issuer of a live request cannot be found, the pass hands in
\* Ready=False/Pending (persisted when the write is accepted), requeues
\* after exactly 1 minute and never leaves the request Failed; a request
\* becomes Failed only in a pass that did find its issuer.
C9_IssuerMissingIsPending ==
  [][\A r \in Requests :
       /\ (PassOn(r) /\ Live(crs[r]) /\ ~IssuerFound(crs[r])) =>
            /\ last'.wrote
            /\ last'.requeueAfter = 60
            /\ last'.err = "nil"
            /\ last'.persisted =>
                 /\ IsPending(crs'[r])
                 /\ ReadyOf(crs'[r]).message = "Failed to get issuer"
            /\ ~IsFailed(crs'[r])
            /\ ~HasCert(crs'[r])
       /\ (~IsFailed(crs[r]) /\ IsFailed(crs'[r])) => IssuerFound(crs[r])]_vars

\* C9 witness: a pass found no issuer; the request is Pending with the
\* lookup message and a requeue after 60 seconds.
C9_Witness ==
  \E r \in Requests :
    /\ last.req = r
    /\ last.branch = "issuer-failed"
    /\ last.persisted
    /\ last.requeueAfter = 60
    /\ ~IssuerFound(crs[r])
    /\ IsPending(crs[r])
    /\ ReadyOf(crs[r]).message = "Failed to get issuer"

\* C10: when the issuer exists but its credential secret is missing or
\* lacks the key token, the pass sets Ready=False/Pending, requeues after
\* 1 minute, and attempts no challenge and no issuance.
C10_UnusableSecretIsPending ==
  [][\A r \in Requests :
       (/\ PassOn(r)
        /\ Live(crs[r]) /\ IssuerFound(crs[r]) /\ CSRParses(crs[r])
        /\ ~SecretUsable)
       => /\ last'.requeueAfter = 60
          /\ "Processing" \notin last'.events
          /\ "Issued" \notin last'.events
          /\ ~HasCert(crs'[r])
          /\ last'.persisted => IsPending(crs'[r])]_vars

\* C11: when the issuer resolves and the CSR does not parse, the pass hands
\* in Ready=False/Failed "Failed to parse CSR" (persisted when the write is
\* accepted, nothing changed when it is refused) and schedules no requeue;
\* a persisted Failed condition stays Failed.
C11_CSRFailureIsFailed ==
  [][\A r \in Requests :
       /\ (PassOn(r) /\ Live(crs[r]) /\ IssuerFound(crs[r]) /\ ~CSRParses(crs[r]))
          => /\ last'.wrote
             /\ last'.requeueAfter = 0
             /\ last'.err = "nil"
             /\ ~HasCert(crs'[r])
             /\ ~last'.persisted => StatusKept(r)
             /\ last'.persisted =>
                  /\ IsFailed(crs'[r])
                  /\ ReadyOf(crs'[r]).message = "Failed to parse CSR"
       /\ IsFailed(crs[r]) => IsFailed(crs'[r])]_vars

\* C11 witness: a request with a malformed CSR is Failed after a pass that
\* found its issuer, and nothing is requeued.
C11_Witness ==
  \E r \in Requests :
    /\ last.req = r
    /\ last.branch = "csr-failed"
    /\ last.persisted
    /\ last.requeueAfter = 0
    /\ ~CSRParses(crs[r])
    /\ IsFailed(crs[r])

\* C12: a pass that leaves the request waiting (first cycle or still
\* waiting) requeues after the issuer's polling interval, 10 seconds by
\* default.
C12_RequeueIsPollingInterval ==
  [][\A r \in Requests :
       (/\ PassOn(r)
        /\ Live(crs[r]) /\ IssuerFound(crs[r]) /\ CSRParses(crs[r])
        /\ last'.requeueAfter > 0)
       => last'.requeueAfter = 10]_vars

\* the number of Ready conditions, and the conditions of other types
ReadyCount(c) ==
  Cardinality({i \in DOMAIN c.conditions : c.conditions[i].type = "Ready"})

IsOtherType(cond) == cond.type # "Ready"

OtherConditions(c) == SelectSeq(c.conditions, IsOtherType)

\* C13: the condition list never holds more than one Ready condition; a
\* persisted status write leaves exactly one, overwriting the existing one
\* in place (the list grows only when there was none), and the conditions
\* of other types are untouched.
C13_SingleReadyCondition ==
  [][\A r \in Requests :
       /\ ReadyCount(crs'[r]) <= 1
       /\ OtherConditions(crs'[r]) = OtherConditions(crs[r])
       /\ (PassOn(r) /\ last'.persisted) =>
            /\ ReadyCount(crs'[r]) = 1
            /\ Len(crs'[r].conditions) =
                 Len(crs[r].conditions) + (IF ReadyCount(crs[r]) = 0 THEN 1 ELSE 0)]_vars

\* C13 witness: a request with an Approved condition had its Ready
\* condition written twice; the list is still Approved followed by one
\* Ready condition.
C13_Witness ==
  \E r \in Requests :
    /\ last.req = r
    /\ last.branch = "waiting"
    /\ last.persisted
    /\ Len(crs[r].conditions) = 2
    /\ crs[r].conditions[1] = ApprovedCondition
    /\ crs[r].conditions[2].type = "Ready"

\* C14: a status write that the API server refuses is retried, not dropped:
\* the pass that made it returns an error or a requeue delay, so the pass is
\* run again.
C14_RefusedWriteIsRetried ==
  (last.wrote /\ ~last.persisted) =>
    (last.requeueAfter > 0 \/ last.err # "nil")

(* ------------------------ names and their labels ----------------------- *)

\* a name without its one trailing dot
Stripped(f) ==
  IF Len(f) > 0 /\ f[Len(f)] = "." THEN SubSeq(f, 1, Len(f) - 1) ELSE f

\* the number of labels of a name: its runs of characters other than the dot
LabelRuns(g) ==
  Cardinality({i \in DOMAIN g : g[i] # "." /\ (i = 1 \/ g[i - 1] = ".")})

\* a name made of labels separated by single dots
WellFormed(g) ==
  /\ Len(g) > 0
  /\ g[1] # "." /\ g[Len(g)] # "."
  /\ \A i \in 1..(Len(g) - 1) : ~(g[i] = "." /\ g[i + 1] = ".")

\* a valid FQDN with at least 2 labels
ValidFQDN(f) == WellFormed(Stripped(f)) /\ LabelRuns(Stripped(f)) >= 2

\* z is a whole-label suffix of g
LabelSuffix(z, g) ==
  /\ Len(z) <= Len(g)
  /\ SubSeq(g, Len(g) - Len(z) + 1, Len(g)) = z
  /\ (Len(z) = Len(g) \/ g[Len(g) - Len(z)] = ".")

\* C15: for a valid FQDN with at least 2 labels, the resolved label is "@"
\* exactly when the FQDN (trailing dot stripped) is the zone, and otherwise
\* label + "." + zone is the FQDN.
C15_ZoneLabelRoundTrip ==
  (resolver.done /\ ValidFQDN(resolver.fqdn)) =>
    LET f == Stripped(resolver.fqdn)
    IN /\ \/ resolver.label = <<"@">> /\ f = resolver.zone
          \/ resolver.label \o <<".">> \o resolver.zone = f
       /\ resolver.label = <<"@">> <=> f = resolver.zone

\* C15 witness: a name of three labels was resolved into a label and a zone
\* that rebuild it.
C15_Witness ==
  /\ resolver.done
  /\ ValidFQDN(resolver.fqdn)
  /\ LabelRuns(Stripped(resolver.fqdn)) = 3
  /\ resolver.label # <<"@">>
  /\ resolver.label \o <<".">> \o resolver.zone = Stripped(resolver.fqdn)

\* C16: for a valid FQDN with at least 2 labels, the zone is the last two
\* labels of the FQDN after one trailing dot is stripped.
C16_ZoneIsLastTwoLabels ==
  (resolver.done /\ ValidFQDN(resolver.fqdn)) =>
    /\ LabelRuns(resolver.zone) = 2
    /\ WellFormed(resolver.zone)
    /\ LabelSuffix(resolver.zone, Stripped(resolver.fqdn))

\* C16 witness: "a.b.a." was resolved to the zone "b.a".
C16_Witness ==
  /\ resolver.done
  /\ resolver.fqdn = <<"a", ".", "b", ".", "a", ".">>
  /\ resolver.zone = <<"b", ".", "a">>
  /\ resolver.label = <<"a">>

(* --------------------- vocabulary of the provider claims --------------- *)

\* the name, zone, record name and content of a call's challenge
ChallengeFQDN(call) == GetChallengeInfo(call.domain, call.keyAuth).EffectiveFQDN

ZoneOf(call) == extractDomainName(ChallengeFQDN(call))

NameOf(call) == extractRecordName(ChallengeFQDN(call), ZoneOf(call))

ContentOf(call) == GetChallengeInfo(call.domain, call.keyAuth).Value

\* the records of the call's zone that are TXT records with the call's name
\* and content
OwnRecords(call) ==
  {i \in DOMAIN records :
     /\ records[i].zone = ZoneOf(call)
     /\ records[i].type = "TXT"
     /\ records[i].name = NameOf(call)
     /\ records[i].content = ContentOf(call)}

\* this step is a return of Present or CleanUp, or of findTXTRecord inside
\* a CleanUp that goes on
Returned == ret'.seq # ret.seq

\* this step is the return of a findTXTRecord
FindReturned == Returned /\ ret'.sent = <<"GET">>

\* C17: a Present or CleanUp whose challenge FQDN has fewer than 2 labels
\* returns an error and sends no request.
C17_ShortNameSendsNothing ==
  (ret.op # "none" /\ LabelRuns(Stripped(ChallengeFQDN(ret))) < 2) =>
    (ret.err # "nil" /\ ret.sent = <<>>)

\* C18: Present returns success exactly when its POST was answered with
\* status 202.
C18_CreateSucceedsOnlyOn202 ==
  ret.op = "Present" =>
    (ret.err = "nil" <=>
       (ret.sent = <<"POST">> /\ ~ret.resp.failed /\ ret.resp.status = 202))

\* C18 witness: a Present returned an error although the API answered 200
\* and made the record.
C18_Witness ==
  /\ ret.op = "Present"
  /\ ret.sent = <<"POST">>
  /\ ~ret.resp.failed /\ ret.resp.status = 200
  /\ ret.err # "nil"
  /\ OwnRecords(ret) # {}

\* C19: a findTXTRecord that succeeds for the zone, name and content of the
\* record the last successful Create made, while that record exists, returns
\* that record's id.
C19_FindReturnsCreated ==
  [][(/\ FindReturned
      /\ ret'.err = "nil"
      /\ created.id # NoID
      /\ \E i \in DOMAIN records : records[i].id = created.id
      /\ ZoneOf(ret') = created.zone
      /\ NameOf(ret') = created.name
      /\ ContentOf(ret') = created.content)
     => ret'.id = created.id]_vars

\* C20: the id a findTXTRecord returns belongs to a TXT record of the listed
\* zone with the requested name and content; when the listing arrives and
\* holds no such record, it returns the empty id and no error.
C20_FindNeverFalseMatch ==
  [][FindReturned =>
       /\ ret'.id # NoID =>
            \E i \in OwnRecords(ret') : records[i].id = ret'.id
       /\ (OwnRecords(ret') = {} /\ ~ret'.resp.failed
             /\ ret'.resp.status = 200 /\ ret'.resp.decodes)
          => (ret'.id = NoID /\ ret'.err = "nil")]_vars

\* C20 witness: a findTXTRecord returned not-found without an error for a
\* zone that holds a TXT record with the requested name and another content.
C20_Witness ==
  /\ ret.op = "CleanUp"
  /\ ret.sent = <<"GET">>
  /\ ret.err = "nil"
  /\ ret.id = NoID
  /\ \E i \in DOMAIN records :
       /\ records[i].zone = ZoneOf(ret)
       /\ records[i].type = "TXT"
       /\ records[i].name = NameOf(ret)
       /\ records[i].content # ContentOf(ret)

\* C21: a CleanUp that sent its DELETE returns success exactly when the
\* DELETE was answered with status 204; every other answer is returned as an
\* error.
C21_DeleteSucceedsOnlyOn204 ==
  (ret.op = "CleanUp" /\ ret.sent = <<"GET", "DELETE">>) =>
    (ret.err = "nil" <=> (~ret.resp.failed /\ ret.resp.status = 204))

\* C21 witness: a CleanUp returned an error although the API answered its
\* DELETE with 200 and removed the record.
C21_Witness ==
  /\ ret.op = "CleanUp"
  /\ ret.sent = <<"GET", "DELETE">>
  /\ ~ret.resp.failed /\ ret.resp.status = 200
  /\ ret.err # "nil"
  /\ \A i \in DOMAIN records : records[i].id # ret.id

\* C22: a CleanUp whose findTXTRecord returns not-found sends no DELETE,
\* changes no record and returns success; and a CleanUp that follows a
\* successful CleanUp of the same challenge, its listing arriving, is such a
\* not-found CleanUp.
C22_RepeatedCleanUpIsNoOp ==
  [][/\ (FindReturned /\ ret'.err = "nil" /\ ret'.id = NoID)
        => (ret'.op = "CleanUp" /\ records' = records /\ inflight' = inflight)
     /\ (/\ FindReturned
         /\ ret.op = "CleanUp" /\ ret.err = "nil"
         /\ ret'.domain = ret.domain /\ ret'.keyAuth = ret.keyAuth
         /\ ~ret'.resp.failed /\ ret'.resp.status = 200 /\ ret'.resp.decodes)
        => (ret'.op = "CleanUp" /\ ret'.err = "nil" /\ ret'.id = NoID)]_vars

\* C27: in every persisted state of a request the Ready condition is True
\* only with reason Issued and only together with certificate bytes, and
\* certificate bytes are present only together with Ready=True/Issued.
C27_IssuedIffCertificate ==
  \A r \in Requests :
    /\ ReadyOf(crs[r]).status = "True" =>
         (ReadyOf(crs[r]).reason = "Issued" /\ HasCert(crs[r]))
    /\ HasCert(crs[r]) => IsIssued(crs[r])

\* C27 witness: the status write of an issuing pass was refused, and the
\* request is still Pending without a certificate.
C27_Witness ==
  \E r \in Requests :
    /\ last.req = r
    /\ last.branch = "issued"
    /\ ~last.persisted
    /\ IsPending(crs[r])
    /\ ~HasCert(crs[r])

\* C29: a request becomes Issued only if an earlier pass of that request
\* performed the first-cycle step.
C29_IssuedOnlyAfterFirstCycle ==
  [][\A r \in Requests :
       (PassOn(r) /\ ~IsIssued(crs[r]) /\ IsIssued(crs'[r])) => started[r]]_vars

\* C30: a pass that leaves the persisted request non-terminal (no
\* certificate, no Failed condition) returns a positive requeue delay or an
\* error.
C30_NonTerminalIsRequeued ==
  [][\A r \in Requests :
       (/\ PassOn(r)
        /\ crs'[r].exists
        /\ RefersToDigicloud(crs'[r])
        /\ ~HasCert(crs'[r])
        /\ ~IsFailed(crs'[r]))
       => (last'.requeueAfter > 0 \/ last'.err # "nil")]_vars

\* C28: under fair re-invocation, with passes at arbitrary times and status
\* writes that succeed, every request with a resolvable issuer and a
\* parseable CSR eventually reaches a persisted terminal state, Issued or
\* Failed.
C28_EventuallyTerminal ==
  \A r \in Requests :
    [](  (crs[r].exists /\ RefersToDigicloud(crs[r]) /\ IssuerFound(crs[r])
            /\ CSRParses(crs[r]))
       => <>((IsIssued(crs[r]) /\ HasCert(crs[r])) \/ IsFailed(crs[r])))

\* C23: a record disappears from a zone only in the DELETE of a CleanUp
\* whose challenge has that record's zone, name and content, whatever Present
\* and CleanUp calls of other challenges are interleaved with it.
C23_CleanUpDeletesOnlyOwn ==
  [][\A i \in DOMAIN records :
       (\A j \in DOMAIN records' : records'[j].id # records[i].id)
       => \E w \in Workers :
            /\ inflight[w].busy /\ ~inflight'[w].busy
            /\ inflight[w].id = records[i].id
            /\ records[i].type = "TXT"
            /\ records[i].zone = ZoneOf(inflight[w])
            /\ records[i].name = NameOf(inflight[w])
            /\ records[i].content = ContentOf(inflight[w])]_vars

\* C23 witness: the CleanUp of one challenge deleted its record while the
\* CleanUp of another challenge with the same record name was in flight, and
\* that challenge's record is still there.
C23_Witness ==
  /\ ret.op = "CleanUp"
  /\ ret.sent = <<"GET", "DELETE">>
  /\ ret.err = "nil"
  /\ OwnRecords(ret) = {}
  /\ \E w \in Workers :
       /\ inflight[w].busy
       /\ ZoneOf(inflight[w]) = ZoneOf(ret)
       /\ NameOf(inflight[w]) = NameOf(ret)
       /\ ContentOf(inflight[w]) # ContentOf(ret)
       /\ \E i \in OwnRecords(inflight[w]) : records[i].id = inflight[w].id

\* C24: the tenant namespace a provider is built with is "default" when the
\* secret provides no namespace (no namespace key, or an empty one) and the
\* secret's value otherwise, on both ways of building the provider.
C24_NamespaceDefault ==
  (built.done /\ built.err = "nil") =>
    built.namespace =
      (IF built.data.namespace.has /\ built.data.namespace.val # ""
       THEN built.data.namespace.val ELSE "default")

\* the Ready condition of an issuer, the namespace its secret is looked up
\* in, and whether its secret reference resolves to a usable secret
IssuerReadyIs(issuer, status, reason) ==
  /\ ReadyOf(issuer).status = status
  /\ ReadyOf(issuer).reason = reason

LookupNamespace(kind) ==
  IF kind = "DigicloudIssuer" THEN iobj[kind].namespace
  ELSE "digicloud-issuer-system"

ReferenceUsable(kind) ==
  LET ref == iobj[kind].secretRef
  IN /\ ref.name # "" /\ ref.key # ""
     /\ ref.name = "creds"
     /\ isecrets[LookupNamespace(kind)].exists
     /\ ref.key \in isecrets[LookupNamespace(kind)].keys

\* this step is a Reconcile pass of the issuer of a kind
IssuerPassOn(kind) == ilast'.seq # ilast.seq /\ ilast'.kind = kind

C26_MissingIssuerIsIgnored ==
  [][\A k \in IssuerKinds :
       (IssuerPassOn(k) /\ ~iobj[k].exists) =>
         /\ ilast'.err = "nil"
         /\ ilast'.requeueAfter = 0
         /\ ~ilast'.wrote
         /\ iobj' = iobj
         /\ isecrets' = isecrets
         /\ crs' = crs]_vars

\* C26 witness: a pass ran for a deleted cluster issuer while the other
\* issuer keeps its Checked status.
C26_Witness ==
  /\ ilast.kind = "DigicloudClusterIssuer"
  /\ ~iobj["DigicloudClusterIssuer"].exists
  /\ ~ilast.wrote
  /\ ilast.err = "nil"
  /\ IssuerReadyIs(iobj["DigicloudIssuer"], "True", "Checked")

(* --------------------- events, cleanup and signing --------------------- *)

\* C31: the "Issued" event of a request is recorded only by a pass whose
\* Issued status and certificate were persisted: a pass whose status write
\* is refused emits no "Issued" event.
C31_IssuedEventOnlyWhenPersisted ==
  [][\A r \in Requests :
       (PassOn(r) /\ "Issued" \in last'.events) =>
         /\ last'.persisted
         /\ IsIssued(crs'[r])
         /\ HasCert(crs'[r])]_vars

\* the records of the zone, after this step, that carry the name and the
\* content of a call's challenge
OwnRecordsAfter(call) ==
  {i \in DOMAIN records' :
     /\ records'[i].zone = ZoneOf(call)
     /\ records'[i].type = "TXT"
     /\ records'[i].name = NameOf(call)
     /\ records'[i].content = ContentOf(call)}

\* C32: when CleanUp of a challenge returns success, the zone holds no TXT
\* record with the name and content of that challenge, whatever the zone
\* held before the call.
C32_CleanUpLeavesNoRecord ==
  [][(Returned /\ ret'.op = "CleanUp" /\ ret'.err = "nil")
       => OwnRecordsAfter(ret') = {}]_vars

\* C33: a CleanUp whose record was removed by another CleanUp between its
\* Find and its Delete returns success once the API has answered its DELETE:
\* two concurrent CleanUp calls of one record both succeed.
C33_ConcurrentCleanUpsSucceed ==
  [][\A w \in Workers :
       (/\ inflight[w].busy /\ ~inflight'[w].busy
        /\ Returned /\ ret'.op = "CleanUp"
        /\ ~ret'.resp.failed
        /\ \A i \in DOMAIN records : records[i].id # inflight[w].id)
       => ret'.err = "nil"]_vars

\* C34: Present sends one POST and nothing else; CleanUp sends one GET and
\* after it at most one DELETE; a CleanUp goes on to its DELETE only after a
\* GET answered 200 in which a matching record was found, a record leaves
\* the zone only through such a DELETE, and a CleanUp whose GET fails
\* returns an error and deletes nothing.
C34_RequestsOfPresentAndCleanUp ==
  [][/\ (Returned /\ ret'.op = "Present") => ret'.sent = <<"POST">>
     /\ (Returned /\ ret'.op = "CleanUp")
          => ret'.sent \in {<<"GET">>, <<"GET", "DELETE">>}
     /\ \A w \in Workers :
          (~inflight[w].busy /\ inflight'[w].busy) =>
            /\ FindReturned
            /\ ~ret'.resp.failed /\ ret'.resp.status = 200
            /\ \E i \in OwnRecords(ret') : records[i].id = inflight'[w].id
     /\ (Returned /\ ret'.sent = <<"GET", "DELETE">>) =>
          \E w \in Workers :
            /\ inflight[w].busy /\ ~inflight'[w].busy
            /\ ret'.id = inflight[w].id
     /\ (\E i \in DOMAIN records :
           \A j \in DOMAIN records' : records'[j].id # records[i].id)
          => (Returned /\ ret'.sent = <<"GET", "DELETE">>)
     /\ (FindReturned /\ (ret'.resp.failed \/ ret'.resp.status # 200)) =>
          /\ ret'.op = "CleanUp"
          /\ ret'.err # "nil"
          /\ records' = records
          /\ inflight' = inflight]_vars

\* C34 witness: a CleanUp whose GET was answered 500 returned an error after
\* that one request, and the record of its challenge is still in the zone.
C34_Witness ==
  /\ ret.op = "CleanUp"
  /\ ret.sent = <<"GET">>
  /\ ~ret.resp.failed /\ ret.resp.status = 500
  /\ ret.err # "nil"
  /\ OwnRecords(ret) # {}

\* C35: for every credential secret that resolves, the tenant namespace
\* getAPIToken derives (the one Sign builds its provider with) is the one
\* NewDigicloudDNSProviderFromIssuerAndSecretData derives from the same
\* secret data, a namespace key with an empty value included.
C35_SameNamespaceOnBothPaths ==
  (built.done /\ built.path = "Sign" /\ built.err = "nil") =>
    built.namespace =
      NewDigicloudDNSProviderFromIssuerAndSecretData(built.data).namespace

\* C38: Sign never returns a certificate: every call returns an empty bundle
\* and an error, the credential-lookup error when the secret or its key is
\* missing and the "not yet implemented" error when the credential
\* resolves, and it sends no request to the DNS provider.
C38_SignAlwaysFails ==
  [][(~built.done /\ built'.done /\ built'.path = "Sign") =>
       /\ built'.bundle = <<>>
       /\ built'.signErr =
            (IF built.exists /\ built.secretKey = "token"
                /\ built.data.token.has
             THEN "certificate signing not yet implemented"
             ELSE "failed to get API token")
       /\ ret' = ret
       /\ records' = records
       /\ inflight' = inflight]_vars

\* C38 witness: Sign resolved the token "tok" of the secret, built its
\* provider with it, and returned the "not yet implemented" error with an
\* empty bundle and no record made.
C38_Witness ==
  /\ built.done /\ built.path = "Sign"
  /\ built.token = "tok"
  /\ built.signErr = "certificate signing not yet implemented"
  /\ built.bundle = <<>>
  /\ records = <<>>

\* C36: a Reconcile pass of a request whose issuer reference is not a
\* Digicloud issuer leaves the request's status as it is, records no event,
\* writes nothing and returns no error and no requeue, whatever conditions
\* the request carries.
C36_ForeignRequestIsIgnored ==
  [][\A r \in Requests :
       (PassOn(r) /\ crs[r].exists /\ ~RefersToDigicloud(crs[r])) =>
         /\ StatusKept(r)
         /\ crs' = crs
         /\ last'.events = {}
         /\ ~last'.wrote
         /\ last'.requeueAfter = 0
         /\ last'.err = "nil"]_vars

\* C36 witness: a pass ran on a request of group cert-manager.io and kind
\* DigicloudIssuer that has been Pending for 40 seconds, with the issuer of
\* that kind and a parsable CSR in place, and the request is still Pending.
C36_Witness ==
  \E r \in Requests :
    /\ last.req = r /\ last.seq = 1
    /\ crs[r].exists
    /\ crs[r].issuerRef.group = "cert-manager.io"
    /\ crs[r].issuerRef.kind = "DigicloudIssuer"
    /\ "DigicloudIssuer" \in issuers
    /\ CSRParses(crs[r])
    /\ IsPending(crs[r])
    /\ now >= 40
    /\ ~last.wrote

====
